---- MODULE Spec2Model ----
(***************************************************************************)
(* A model of the layered allocator of ls_lalloc.h (lalloc, relalloc,      *)
(* lfree), with the operating system's page operations it calls (mmap,     *)
(* mprotect, madvise, mremap) and the threads that call it; of the chunk   *)
(* arena of ls_chunk_arena.h; and of the page release of ls_valloc.h and   *)
(* ls_mallocs.h.                                                           *)
(*                                                                         *)
(* Addresses are byte addresses; memory holds one value per 8-byte word    *)
(* (a word absent from mem reads 0).  The program's sizes are scaled so    *)
(* that a model checker can walk the address space: the scaled values keep *)
(* the order of the real ones (minimal block < page size < memcpy          *)
(* threshold < largest block, the top layer holds one block):              *)
(*     real      64 B   4 KiB   8 MiB   1 TiB   35 layers   64-bit         *)
(*     model     32 B   64 B    128 B   512 B    5 layers   13-bit         *)
(***************************************************************************)
EXTENDS Integers, Sequences, FiniteSets, TLC

(* ----------------------------- bounds ---------------------------------- *)

\* number of public calls made in a behaviour of Spec
MaxOps == 3
\* number of public calls the one thread of SpecSeq makes
MaxSeqOps == 4
\* number of allocations the one thread of SpecSizes makes
MaxSizeOps == 1
\* number of public calls the one thread of SpecLifo makes
MaxLifoOps == 6
\* calls made by the two threads that share the largest layers
MaxSharedOps == 4
\* number of page-release calls made in a behaviour of SpecValloc
MaxVallocOps == 2
\* number of chunks of the largest arena of SpecArena
MaxChunks == 3
\* number of calls made on the arena of SpecArena
MaxArenaOps == 7

(* ------------------------ program constants ---------------------------- *)

LS_NULL == 0
\* sizeof(void*)
PtrSize == 8
\* width of ls_u64_t and of a pointer (scaled)
AddrBits == 13
\* width of ls_u8_t
U8Bits == 8
LS_LALLOC_VSPACE_Z_ == 2560
LS_LALLOC_MIN_Z_ == 32
LS_LALLOC_MIN_SHIFT_ == 5
LS_LALLOC_MAX_Z_ == 512
LS_LALLOC_LAYER_Z_ == LS_LALLOC_MAX_Z_
LS_LALLOC_LAYER_C_ == 5
LS_LALLOC_MEMCPY_THRES == 128
\* what sysconf(_SC_PAGESIZE) reports
SysPageSize == 64
\* the address mmap gives the reservation
MmapBase == 4096

AddrMod == 2 ^ AddrBits
U8Mod == 2 ^ U8Bits
\* (void*) -1
MAP_FAILED == AddrMod - 1

\* the threads that call the allocator
Threads == {1, 2}
Layers == 0 .. (LS_LALLOC_LAYER_C_ - 1)

(* --------------------------- ls_macros.h ------------------------------- *)

RECURSIVE BitLen(_)
\* number of significant bits of n (0 for 0)
BitLen(n) == IF n <= 0 THEN 0 ELSE 1 + BitLen(n \div 2)

\* __builtin_clzll on the (scaled) word
clzll(n) == AddrBits - BitLen(n)

\* the log2 one too small: the rounding of floor log2
LS_CEIL_LOG2_floor(n) == (AddrBits - 1) - clzll(n)

LS_CEIL_LOG2(n) == AddrBits - clzll((n - 1) % AddrMod)

LS_ROUND_DOWN_TO(n, m) == n - (n % m)

LS_ROUND_UP_TO(n, m) == ((n + m - 1) \div m) * m

\* The macro is used by ls_lalloc and ls_relalloc, its definition is in a
\* version of ls_macros.h that is not among the sources: it is modelled from
\* the specification's size-class rule, i = ceil(log2(max(s, 64))) - 6, which
\* clamps the request from below to the minimal block size.
LS_MIN(a, b) == IF a < b THEN b ELSE a

(* --------------------------- state ------------------------------------- *)

VARIABLES
    initialized,   \* ls_lalloc_meta_.initialized
    vspace_p,      \* ls_lalloc_meta_.vspace_p
    page_z,        \* ls_lalloc_meta_.page_z
    header_a,      \* ls_lalloc_meta_.header_a
    spinlock,      \* ls_lalloc_meta_.spinlock
    mem,           \* contents of memory: word address -> non-zero value
    prot,          \* the pages that are readable and writable
    th,            \* per thread: where it is and the call it makes
    live,          \* the blocks handed out and not given back
    nops,          \* public calls made
    crashed,       \* the process died of a memory fault
    wild,          \* a store went through an out-of-bounds header index
    freed,         \* per layer: the blocks given back and not handed out
                   \* again, in the order they were given back
    arena,         \* an ls_chunk_arena_t of the caller
    amem,          \* contents of the arena's memory: word address -> value
    acommitted,    \* the chunks the commit binding was called for
    alive,         \* the chunks the caller holds
    afreed,        \* the chunks deleted and not handed out again, in order
    alast,         \* the last call on the arena, with what it returned
    acount,        \* calls made on the arena
    vmem,          \* contents of a virtual allocation: word address -> value
    vlast,         \* the last page-release call on it, with its arguments
    vcount         \* page-release calls made on it

\* the layered allocator and its callers
lvars == <<initialized, vspace_p, page_z, header_a, spinlock, mem, prot, th,
           live, nops, crashed, wild, freed>>

\* the chunk arena and its caller
avars == <<arena, amem, acommitted, alive, afreed, alast, acount>>

\* the virtual allocation and its caller
vvars == <<vmem, vlast, vcount>>

vars == <<lvars, avars, vvars>>

ZeroHeader ==
    [layer_p |-> LS_NULL, block_z |-> 0, block_c |-> 0, block_max |-> 0,
     head_i |-> 0, deleted_head |-> LS_NULL]

(* The state a public call works on while it holds the lock. *)
Meta ==
    [init |-> initialized, vp |-> vspace_p, pz |-> page_z, h |-> header_a,
     m |-> mem, p |-> prot, crash |-> FALSE, wild |-> wild, oob |-> FALSE]

(* --------------------------- memory ------------------------------------ *)

Rd(m, a) == IF a \in DOMAIN m THEN m[a] ELSE 0

\* m with the words of upd stored (a zero removes the word)
Store(m, upd) ==
    LET keep == {a \in (DOMAIN m) \cup (DOMAIN upd) :
                    IF a \in DOMAIN upd THEN upd[a] # 0 ELSE TRUE}
    IN  [a \in keep |-> IF a \in DOMAIN upd THEN upd[a] ELSE m[a]]

PageOf(st, a) == LS_ROUND_DOWN_TO(a, st.pz)

\* the pages that hold a byte of [a, a + n)
PagesOf(st, a, n) ==
    IF n <= 0 \/ st.pz = 0 THEN {}
    ELSE {PageOf(st, a) + k * st.pz :
            k \in 0 .. ((PageOf(st, a + n - 1) - PageOf(st, a)) \div st.pz)}

Accessible(st, a, n) ==
    st.pz # 0 /\ a >= 0 /\ PagesOf(st, a, n) \subseteq st.p

\* a page of the reservation, or one a remap has placed
Mapped(st, q) ==
    \/ st.init /\ st.vp <= q /\ q < st.vp + LS_LALLOC_VSPACE_Z_
    \/ q \in st.p

Crash(st) == [st EXCEPT !.crash = TRUE]

\* *(ls_u64_t*) a = v, a fault when the page is not writable
StoreWord(st, a, v) ==
    IF st.crash THEN st
    ELSE IF ~Accessible(st, a, PtrSize) THEN Crash(st)
    ELSE [st EXCEPT !.m = Store(st.m, (a :> v))]


\* the value of *(ls_u64_t*) a (read only where Accessible)
LoadWord(st, a) == Rd(st.m, a)

(* ---------------------- operating system ------------------------------- *)

\* the pages of [a, a + n) up to the first one that is not mapped: mprotect
\* works through the range in address order and stops with ENOMEM at a hole
MappedPrefix(st, a, n) ==
    LET R == PagesOf(st, a, n)
    IN  {q \in R : \A r \in R : r <= q => Mapped(st, r)}

\* mprotect(a, n, PROT_READ | PROT_WRITE) for rw, mprotect(a, n, PROT_NONE)
\* otherwise; EINVAL (nothing done) when a is not page-aligned
mprotect(st, a, n, rw) ==
    IF st.crash \/ st.pz = 0 \/ a < 0 \/ a % st.pz # 0 \/ n <= 0 THEN st
    ELSE IF rw THEN [st EXCEPT !.p = st.p \cup MappedPrefix(st, a, n)]
    ELSE [st EXCEPT !.p = st.p \ MappedPrefix(st, a, n)]

\* madvise(a, n, MADV_DONTNEED): the pages read as zero from now on
madvise(st, a, n) ==
    IF st.crash \/ st.pz = 0 \/ a < 0 \/ a % st.pz # 0 \/ n <= 0 THEN st
    ELSE LET R == PagesOf(st, a, n)
         IN  [st EXCEPT !.m = [w \in {x \in DOMAIN st.m : PageOf(st, x) \notin R}
                                 |-> st.m[w]]]

\* mremap(old, n, n, MREMAP_FIXED | MREMAP_MAYMOVE | MREMAP_DONTUNMAP, new):
\* the pages of [old, old + n) move to new, the old range stays mapped and
\* reads zero.  EINVAL when an address is not page-aligned, the length is 0
\* or the ranges overlap; EFAULT when the old range is not mapped.
mremap(st, old, n, new) ==
    IF st.crash \/ st.pz = 0 \/ old < 0 \/ new < 0 THEN st
    ELSE
    LET len == LS_ROUND_UP_TO(n, st.pz)
        src == PagesOf(st, old, len)
        dst == PagesOf(st, new, len)
    IN  IF \/ old % st.pz # 0 \/ new % st.pz # 0 \/ len <= 0
           \/ (old + len > new /\ new + len > old)
           \/ \E q \in src : ~Mapped(st, q)
        THEN st
        ELSE LET kept == {w \in DOMAIN st.m :
                            PageOf(st, w) \notin src /\ PageOf(st, w) \notin dst}
                 moved == {w + (new - old) : w \in {x \in DOMAIN st.m : PageOf(st, x) \in src}}
             IN  [st EXCEPT
                    !.m = [w \in kept \cup moved |->
                              IF w \in moved THEN st.m[w - (new - old)] ELSE st.m[w]],
                    !.p = (st.p \ dst) \cup {q + (new - old) : q \in (src \cap st.p)}]

\* memcpy(dst, src, n): a fault when a page read or written is not accessible
memcpy(st, dst, src, n) ==
    IF st.crash \/ n <= 0 THEN st
    ELSE IF ~Accessible(st, src, n) \/ ~Accessible(st, dst, n) THEN Crash(st)
    ELSE LET W == {k * PtrSize : k \in 0 .. ((n \div PtrSize) - 1)}
         IN  [st EXCEPT !.m = Store(st.m, [a \in {dst + o : o \in W} |->
                                               Rd(st.m, src + (a - dst))])]

\* what mmap gives ls_lalloc_init_: the reservation, or MAP_FAILED
mmap(ok) == IF ok THEN MmapBase ELSE MAP_FAILED

ls_lalloc_page_size_ == SysPageSize

(* ------------------------- layer headers ------------------------------- *)

\* What header_a[i] reads as when i is past the array: the bytes behind the
\* table are not the allocator's, g is what they happen to hold.
Garbage ==
    {[crash |-> TRUE, layer_p |-> LS_NULL, block_z |-> 0]}
    \cup {[crash |-> FALSE, layer_p |-> a, block_z |-> z] :
            a \in {LS_NULL, MmapBase}, z \in {0, LS_LALLOC_MAX_Z_}}

\* what the bytes behind the table hold when nothing reads them
NoGarbage == [crash |-> FALSE, layer_p |-> LS_NULL, block_z |-> 0]

InTable(i) == i \in Layers

Hdr(st, i, g) ==
    IF InTable(i) THEN st.h[i]
    ELSE [ZeroHeader EXCEPT !.layer_p = g.layer_p, !.block_z = g.block_z]

\* header_a[i].f = v; past the array the store lands in foreign memory
SetHdr(st, i, f, v) ==
    IF st.crash THEN st
    ELSE IF InTable(i) THEN [st EXCEPT !.h[i][f] = v]
    ELSE [st EXCEPT !.wild = TRUE]

\* an access to header_a[i]: past the array it may fault (oob notes that
\* the call has read what lies behind the table)
Touch(st, i, g) ==
    IF InTable(i) THEN st
    ELSE IF g.crash THEN [st EXCEPT !.crash = TRUE, !.oob = TRUE]
    ELSE [st EXCEPT !.oob = TRUE]


(* ------------------------- free-list engine ---------------------------- *)

Fault(st) == [st |-> Crash(st), spot |-> LS_NULL]

\* page_z / sizeof(void*) - 2: the links one packed node holds
NodeLinks(st) == ((st.pz \div PtrSize) - 2) % AddrMod

\* whether layer i keeps the unpacked list
Unpacked(st, i, g) == Hdr(st, i, g).block_z < st.pz

ls_lalloc_layer_get_del_spot_(st, i, g) ==
    LET hd == Hdr(st, i, g)
        head == hd.deleted_head
    IN  IF Unpacked(st, i, g)
        THEN \* unpacked backwards linked list
             IF ~Accessible(st, head, PtrSize) THEN Fault(st)
             ELSE [st |-> SetHdr(st, i, "deleted_head", LoadWord(st, head)),
                   spot |-> head]
        ELSE \* packed backwards linked list
             IF ~Accessible(st, head + PtrSize, PtrSize) THEN Fault(st)
             ELSE
             LET link_c == LoadWord(st, head + PtrSize)
                 at == (head + (link_c + 1) * PtrSize) % AddrMod
             IN  IF ~Accessible(st, at, PtrSize) THEN Fault(st)
                 ELSE
                 LET spot == LoadWord(st, at)
                     left == (link_c - 1) % AddrMod
                     st1 == StoreWord(st, head + PtrSize, left)
                 IN  IF left = 0
                     THEN \* node is empty
                          LET st2 == SetHdr(st1, i, "deleted_head", LoadWord(st1, head))
                              st3 == madvise(st2, head, st.pz)
                              st4 == mprotect(st3, head, st.pz, FALSE)
                          IN  [st |-> st4, spot |-> spot]
                     ELSE [st |-> st1, spot |-> spot]

ls_lalloc_layer_get_spot_(st0, i, g) ==
    LET st == Touch(st0, i, g)
        hd == Hdr(st, i, g)
    IN  IF st.crash THEN Fault(st)
        ELSE IF hd.deleted_head = LS_NULL
        THEN LET st1 == SetHdr(st, i, "head_i", hd.head_i + 1)
                 st2 == SetHdr(st1, i, "block_c", hd.block_c + 1)
             IN  [st |-> st2,
                  spot |-> (hd.layer_p + hd.head_i * hd.block_z) % AddrMod]
        ELSE ls_lalloc_layer_get_del_spot_(st, i, g)

\* an unpacked push that links spot and leaves deleted_head as it was
DelUnpacked_nohead(st, i, g, spot) ==
    IF ~Unpacked(st, i, g) THEN st
    ELSE StoreWord(StoreWord(st, spot, Hdr(st, i, g).deleted_head), spot + PtrSize, 0)

\* the unpacked push of ls_lalloc_layer_del_spot_ (it does not return)
DelUnpacked(st, i, g, spot) ==
    IF ~Unpacked(st, i, g) THEN st
    ELSE LET st1 == StoreWord(st, spot, Hdr(st, i, g).deleted_head)
             st2 == StoreWord(st1, spot + PtrSize, 0)
         IN  SetHdr(st2, i, "deleted_head", spot)

\* the "node is full" branch: spot becomes the head node, the pages behind
\* its first one are given back
DelNewNode(st, i, g, spot) ==
    LET hd == Hdr(st, i, g)
        st1 == StoreWord(st, spot, hd.deleted_head)
        st2 == SetHdr(st1, i, "deleted_head", spot)
        st3 == StoreWord(st2, spot + PtrSize, 0)
        st4 == madvise(st3, spot + st.pz, hd.block_z - st.pz)
    IN  mprotect(st4, spot + st.pz, hd.block_z - st.pz, FALSE)

\* a push that stores spot and does not count it
DelPush_nocount(st, i, g, spot) ==
    LET head == Hdr(st, i, g).deleted_head
    IN  IF st.crash THEN st
        ELSE IF ~Accessible(st, head + PtrSize, PtrSize) THEN Crash(st)
        ELSE StoreWord(st, (head + (LoadWord(st, head + PtrSize) + 2) * PtrSize) % AddrMod, spot)

\* the push of spot into the head node
DelPush(st, i, g, spot) ==
    LET head == Hdr(st, i, g).deleted_head
    IN  IF st.crash THEN st
        ELSE IF ~Accessible(st, head + PtrSize, PtrSize) THEN Crash(st)
        ELSE LET link_c == LoadWord(st, head + PtrSize)
                 st1 == StoreWord(st, (head + (link_c + 2) * PtrSize) % AddrMod, spot)
             IN  StoreWord(st1, head + PtrSize, (link_c + 1) % AddrMod)

ls_lalloc_layer_del_spot_(st0, i, g, spot) ==
    LET st == Touch(st0, i, g)
        st1 == IF st.crash THEN st ELSE DelUnpacked(st, i, g, spot)
        head == Hdr(st1, i, g).deleted_head
    IN  IF st1.crash THEN st1
        ELSE IF head # LS_NULL /\ ~Accessible(st1, head + PtrSize, PtrSize)
        THEN Crash(st1)
        ELSE IF head = LS_NULL \/ LoadWord(st1, head + PtrSize) = NodeLinks(st1)
        THEN DelPush(DelNewNode(st1, i, g, spot), i, g, spot)
        ELSE DelPush(st1, i, g, spot)

(* --------------------------- lazy init --------------------------------- *)

InitHeader(vp, i) ==
    [layer_p |-> vp + i * LS_LALLOC_MAX_Z_,
     block_z |-> LS_LALLOC_MIN_Z_ * (2 ^ i),
     block_c |-> 0,
     block_max |-> LS_LALLOC_MAX_Z_ \div (LS_LALLOC_MIN_Z_ * (2 ^ i)),
     head_i |-> 0,
     deleted_head |-> LS_NULL]

\* ls_lalloc_init_: st.init tells whether it returned LS_TRUE
ls_lalloc_init_(st, ok) ==
    LET st1 == [st EXCEPT !.vp = mmap(ok)]
    IN  IF st1.vp = MAP_FAILED THEN st1
        ELSE [st1 EXCEPT !.h = [i \in Layers |-> InitHeader(st1.vp, i)],
                         !.pz = ls_lalloc_page_size_,
                         !.init = TRUE]

\* a lazy init that runs on every call
EnsureInit_always(st, ok) == ls_lalloc_init_(st, ok)

\* initialized != LS_TRUE && ls_lalloc_init_() != LS_TRUE, with its effect
EnsureInit(st, ok) == IF st.init THEN st ELSE ls_lalloc_init_(st, ok)


(* --------------------------- public calls ------------------------------ *)

\* a size check that lets sizes up to twice the largest block through
TooBig_lax(size) == size > 2 * LS_LALLOC_MAX_Z_

\* size > LS_LALLOC_MAX_Z_
TooBig(size) == size > LS_LALLOC_MAX_Z_

\* 1llu << LS_CEIL_LOG2(LS_MIN(size, LS_LALLOC_MIN_Z_))
BlockOf(size) == (2 ^ LS_CEIL_LOG2(LS_MIN(size, LS_LALLOC_MIN_Z_))) % AddrMod

\* (ls_u8_t) (LS_CEIL_LOG2(LS_MIN(size, LS_LALLOC_MIN_Z_)) - LS_LALLOC_MIN_SHIFT_)
LayerOf(size) ==
    (LS_CEIL_LOG2(LS_MIN(size, LS_LALLOC_MIN_Z_)) - LS_LALLOC_MIN_SHIFT_) % U8Mod

\* (ls_u8_t) ((mem - vspace_p) / LS_LALLOC_LAYER_Z_)
LayerOfAddr(st, a) == (((a - st.vp) % AddrMod) \div LS_LALLOC_LAYER_Z_) % U8Mod

\* what a call hands back: the state it leaves, its return value, whether it
\* reached ls_lalloc_spinunlock_, and the layer it took a block from
Outcome(st, ret, unlock, layer) ==
    [st |-> st, ret |-> ret, unlock |-> unlock, layer |-> layer]

NoLayer == LS_LALLOC_LAYER_C_

\* the commit of the block at spot: mprotect over the pages that hold it
Commit(st, spot, block_z) ==
    mprotect(st, LS_ROUND_DOWN_TO(spot, st.pz), LS_ROUND_UP_TO(block_z, st.pz), TRUE)

ls_lalloc(st0, size, g, ok) ==
    LET st1 == EnsureInit(st0, ok)
    IN  IF ~st1.init THEN Outcome(st1, LS_NULL, FALSE, NoLayer)
        ELSE IF TooBig(size) THEN Outcome(st1, LS_NULL, FALSE, NoLayer)
        ELSE LET block_z == BlockOf(size)
                 layer_i == LayerOf(size)
                 r == ls_lalloc_layer_get_spot_(st1, layer_i, g)
             IN  Outcome(Commit(r.st, r.spot, block_z), r.spot, TRUE, layer_i)

\* the branch of ls_relalloc for a new block below the memcpy threshold
RelCopy(st, spot, block_z, mem_p, old_z) ==
    memcpy(Commit(st, spot, block_z), spot, mem_p, old_z)

\* the branch of ls_relalloc that remaps the pages
RelRemap(st, spot, mem_p, old_z) ==
    LET st1 == mremap(st, mem_p, old_z, spot)
        st2 == mprotect(st1, (spot + old_z) % AddrMod, old_z, TRUE)
    IN  mprotect(st2, mem_p, st.pz, TRUE)

\* ls_relalloc behind its test of mem: from the lock to the return
RelallocBody(st0, mem_p, size, g, ok) ==
    LET st1 == EnsureInit(st0, ok)
    IN  IF ~st1.init THEN Outcome(st1, LS_NULL, FALSE, NoLayer)
        ELSE
        LET block_z == BlockOf(size)
            new_layer_i == LayerOf(size)
            old_layer_i == LayerOfAddr(st1, mem_p)
            r == ls_lalloc_layer_get_spot_(Touch(st1, old_layer_i, g), new_layer_i, g)
            old_z == Hdr(r.st, old_layer_i, g).block_z
            st2 == IF Hdr(r.st, new_layer_i, g).block_z < LS_LALLOC_MEMCPY_THRES
                   THEN RelCopy(r.st, r.spot, block_z, mem_p, old_z)
                   ELSE RelRemap(r.st, r.spot, mem_p, old_z)
            st3 == ls_lalloc_layer_del_spot_(st2, old_layer_i, g, mem_p)
        IN  Outcome(st3, r.spot, TRUE, new_layer_i)

\* an ls_relalloc that does not test mem for null
ls_relalloc_nonull(st0, mem_p, size, g, ok) == RelallocBody(st0, mem_p, size, g, ok)

ls_relalloc(st0, mem_p, size, g, ok) ==
    IF mem_p = LS_NULL THEN ls_lalloc(st0, size, g, ok)
    ELSE RelallocBody(st0, mem_p, size, g, ok)

ls_lfree(st, mem_p, g) ==
    LET layer_i == LayerOfAddr(st, mem_p)
    IN  Outcome(ls_lalloc_layer_del_spot_(st, layer_i, g, mem_p), LS_NULL, TRUE, NoLayer)


(* ------------------------- ls_chunk_arena.h ---------------------------- *)

\* where the caller's memory for the arena lies
ArenaBase == 1024
\* the chunk sizes the caller uses
ChunkSizes == {8, 16}
\* what the caller keeps in the first word of a chunk it holds
CallerWord == 99

LS_CHUNK_ARENA_SUCCESS == 0
\* _LS_CHUNK_ARENA_RESULT_SIGNATURE(2): 0x43484100 | 2
LS_CHUNK_ARENA_MEM_FULL == 1128808706

RECURSIVE ctzll(_)
\* __builtin_ctzll(n) for n > 0
ctzll(n) == IF n % 2 = 1 THEN 0 ELSE 1 + ctzll(n \div 2)

\* n >> k
Shr(n, k) == n \div (2 ^ k)

\* _LS_MULT_TO(n, m)
LS_MULT_TO(n, m) == n - (n % m)

\* _LS_CHUNK_ARENA_INDEX_TO_PTR(chunk_arena, index)
LS_CHUNK_ARENA_INDEX_TO_PTR(a, index) == index * a.chunk_size + a.memory

ls_chunk_arena_init(memory, memory_size, chunk_size) ==
    [memory |-> memory,
     max_chunk_c |-> Shr(memory_size, ctzll(chunk_size)),
     chunk_size |-> chunk_size,
     chunk_c |-> 0,
     next_committed_chunk |-> 1,
     last_deleted_chunk |-> 0]

\* the arena, its memory and the chunks committed, as a call works on them
Arena == [a |-> arena, m |-> amem, c |-> acommitted]

\* _ls_chunk_arena_alloca_commit_range(memory, chunk_ptr, chunk_size)
commit_range(S, chunk_ptr) == [S EXCEPT !.c = S.c \cup {chunk_ptr}]

\* what ls_chunk_arena_get_chunk hands back: the arena it leaves, the chunk
\* and *status
Got(S, ptr, status) == [S |-> S, ptr |-> ptr, status |-> status]

\* a test for a full arena that is one chunk late
ArenaFull_late(a) == a.chunk_c > a.max_chunk_c

\* chunk_arena->_max_chunk_c == chunk_arena->_chunk_c
ArenaFull(a) == a.max_chunk_c = a.chunk_c

\* a revive that leaves the chunk on the stack of deleted chunks
revive_last_deleted_chunk_stay(S) ==
    Got(S, LS_CHUNK_ARENA_INDEX_TO_PTR(S.a, S.a.last_deleted_chunk - 1),
        LS_CHUNK_ARENA_SUCCESS)

revive_last_deleted_chunk(S) ==
    LET deleted_chunk == LS_CHUNK_ARENA_INDEX_TO_PTR(S.a, S.a.last_deleted_chunk - 1)
    IN  Got([S EXCEPT !.a.last_deleted_chunk = Rd(S.m, deleted_chunk)],
            deleted_chunk, LS_CHUNK_ARENA_SUCCESS)

ls_chunk_arena_get_chunk(S) ==
    IF ArenaFull(S.a) THEN Got(S, LS_NULL, LS_CHUNK_ARENA_MEM_FULL)
    ELSE
    LET S1 == [S EXCEPT !.a.chunk_c = S.a.chunk_c + 1]
    IN  IF S1.a.last_deleted_chunk = 0
        THEN LET chunk_ptr == LS_CHUNK_ARENA_INDEX_TO_PTR(S1.a, S1.a.next_committed_chunk - 1)
                 S2 == commit_range(S1, chunk_ptr)
             IN  Got([S2 EXCEPT !.a.next_committed_chunk = S2.a.next_committed_chunk + 1],
                     chunk_ptr, LS_CHUNK_ARENA_SUCCESS)
        ELSE revive_last_deleted_chunk(S1)

\* a delete that does not count the chunk out
ls_chunk_arena_delete_chunk_nodec(S, ptr) ==
    LET chunk_ptr == LS_MULT_TO(ptr, S.a.chunk_size)
        chunk_i == Shr(chunk_ptr - S.a.memory, ctzll(S.a.chunk_size))
        S1 == [S EXCEPT !.m = Store(S.m, (chunk_ptr :> S.a.last_deleted_chunk))]
    IN  [S1 EXCEPT !.a.last_deleted_chunk = chunk_i + 1]

\* a delete that does not write the link into the chunk
ls_chunk_arena_delete_chunk_nolink(S, ptr) ==
    LET chunk_ptr == LS_MULT_TO(ptr, S.a.chunk_size)
        chunk_i == Shr(chunk_ptr - S.a.memory, ctzll(S.a.chunk_size))
    IN  [S EXCEPT !.a.last_deleted_chunk = chunk_i + 1,
                  !.a.chunk_c = S.a.chunk_c - 1]

ls_chunk_arena_delete_chunk(S, ptr) ==
    LET chunk_ptr == LS_MULT_TO(ptr, S.a.chunk_size)
        chunk_i == Shr(chunk_ptr - S.a.memory, ctzll(S.a.chunk_size))
        S1 == [S EXCEPT !.m = Store(S.m, (chunk_ptr :> S.a.last_deleted_chunk))]
    IN  [S1 EXCEPT !.a.last_deleted_chunk = chunk_i + 1,
                   !.a.chunk_c = S.a.chunk_c - 1]

\* no call has been made on the arena
NoCall == [op |-> "none", ptr |-> LS_NULL, status |-> LS_CHUNK_ARENA_SUCCESS]

(* ---------------------- ls_valloc.h, ls_mallocs.h ---------------------- *)

\* the address mmap gives ls_valloc_vmalloc / ls_vmalloc
VBase == 2048
\* what _ls_valloc_memtotal / _ls_memtotal report (scaled): the bytes of
\* /proc/meminfo's MemTotal, no multiple of the page size
VMemTotal == 208

ls_valloc_page_size == SysPageSize
ls_valloc_memtotal == VMemTotal
ls_page_size == SysPageSize
ls_memtotal == VMemTotal

\* the memory a page-release call works on, for the system calls
VState(m, page_size) == [crash |-> FALSE, pz |-> page_size, m |-> m]

\* ls_valloc_pfree_range(ptr, offset, range): the memory it leaves
ls_valloc_pfree_range(m, ptr, offset0, range0) ==
    LET page_size == ls_valloc_page_size
        offset == LS_MULT_TO(offset0, page_size) + page_size
        range1 == LS_MULT_TO(range0, page_size)
    IN  IF range1 = 0 \/ offset >= ls_valloc_memtotal THEN m
        ELSE LET range == IF offset + range1 > ls_valloc_memtotal
                          THEN ls_valloc_memtotal - offset ELSE range1
             IN  madvise(VState(m, page_size), ptr + offset, range).m

\* ls_pfree_range(ptr, offset, range): the memory it leaves
ls_pfree_range(m, ptr, offset0, range0) ==
    LET page_size == ls_page_size
        offset == LS_MULT_TO(offset0, page_size) + page_size
        range1 == LS_MULT_TO(range0, page_size)
    IN  IF range1 = 0 \/ offset >= ls_memtotal THEN m
        ELSE LET range == IF offset + range1 > ls_memtotal
                          THEN ls_memtotal - offset ELSE range1
             IN  madvise(VState(m, page_size), ptr + offset, range).m

\* no page-release call has been made
NoRelease == [fn |-> "none", offset |-> 0, range |-> 0]

(* ----------------------------- threads --------------------------------- *)

\* the request sizes the callers use: one per layer, and one too large
Sizes == {24, 40, 128, 256, 512, 600}

Idle == [pc |-> "idle", op |-> "none", mem |-> LS_NULL, size |-> 0, blk |-> 0,
         ret |-> LS_NULL, layer |-> NoLayer, got |-> 0, tick |-> 0]

\* the block of the thread's call, and the blocks a thread holds
BlockOfCall(t) == {b \in live : b.id = th[t].blk}
Held(t) == {b \in live : b.owner = t}

\* word k of the payload the owner writes into block id
Pattern(id, k) == 10000 * id + k + 1

WordsOf(size) == (size + PtrSize - 1) \div PtrSize

LallocInit ==
    /\ initialized = FALSE
    /\ vspace_p = LS_NULL
    /\ page_z = 0
    /\ header_a = [i \in Layers |-> ZeroHeader]
    /\ spinlock = FALSE
    /\ mem = << >>
    /\ prot = {}
    /\ th = [t \in Threads |-> Idle]
    /\ live = {}
    /\ nops = 0
    /\ crashed = FALSE
    /\ wild = FALSE
    /\ freed = [i \in Layers |-> << >>]

\* the caller has made no arena
NoArena ==
    /\ arena = ls_chunk_arena_init(LS_NULL, 0, PtrSize)
    /\ amem = << >>
    /\ acommitted = {}
    /\ alive = {}
    /\ afreed = << >>
    /\ alast = NoCall
    /\ acount = 0

\* the caller has made no virtual allocation
NoValloc ==
    /\ vmem = << >>
    /\ vlast = NoRelease
    /\ vcount = 0

Init == LallocInit /\ NoArena /\ NoValloc

\* a spinlock that does not look at the flag
TestAndSet_blind == TRUE

\* atomic_flag_test_and_set_explicit returned false: the flag was clear
TestAndSet == ~spinlock

\* ls_lalloc_spinlock_: the loop ends when the flag was found clear, and the
\* flag is set from then on
ls_lalloc_spinlock_ == TestAndSet /\ spinlock' = TRUE

\* ls_lalloc_spinunlock_: the value of the flag after atomic_flag_clear
ls_lalloc_spinunlock_ == FALSE

NoBlock == [addr |-> LS_NULL, id |-> 0]

\* A thread enters a public function and leaves the spin loop at its head
\* (ls_relalloc with a null mem enters ls_lalloc, which takes the lock): a
\* thread that finds the flag set spins, which changes nothing.
Call(t, op, b, size, maxops) ==
    /\ ~crashed
    /\ th[t].pc = "idle"
    /\ nops < maxops
    /\ ls_lalloc_spinlock_
    /\ nops' = nops + 1
    /\ th' = [th EXCEPT ![t] = [pc |-> "cs", op |-> op, mem |-> b.addr,
                                size |-> size, blk |-> b.id, ret |-> LS_NULL,
                                layer |-> NoLayer, got |-> 0,
                                tick |-> nops + 1]]
    /\ UNCHANGED <<initialized, vspace_p, page_z, header_a, mem, prot,
                   live, crashed, wild, freed>>
    /\ UNCHANGED <<avars, vvars>>

CallLalloc(t, SZ, maxops) ==
    \E size \in SZ : Call(t, "lalloc", NoBlock, size, maxops)

CallRelalloc(t, SZ, maxops) ==
    \E size \in SZ : \E b \in Held(t) \cup {NoBlock} :
        Call(t, "relalloc", b, size, maxops)

CallLfree(t, maxops) ==
    \E b \in Held(t) \cup {NoBlock} : Call(t, "lfree", b, 0, maxops)

\* the call of thread t, run on the state st
Run(t, g, ok) ==
    CASE th[t].op = "lalloc" -> ls_lalloc(Meta, th[t].size, g, ok)
      [] th[t].op = "relalloc" -> ls_relalloc(Meta, th[t].mem, th[t].size, g, ok)
      [] OTHER -> ls_lfree(Meta, th[t].mem, g)

\* a name for the next block handed out: the least one not in use
FreshId == CHOOSE n \in 1 .. (Cardinality(live) + 1) :
              /\ \A b \in live : b.id # n
              /\ \A m \in 1 .. (n - 1) : \E b \in live : b.id = m

\* whether the call of t, come back with o, hands its caller a block
Fresh(t, o) == th[t].op # "lfree" /\ o.ret # LS_NULL

\* the blocks held once the call of t has come back with o
LiveAfter(t, o) ==
    LET gone == IF th[t].op = "lalloc" THEN {} ELSE BlockOfCall(t)
        got == IF ~Fresh(t, o) THEN {}
               ELSE {[id |-> FreshId, addr |-> o.ret, layer |-> o.layer,
                      bz |-> Hdr(o.st, o.layer, NoGarbage).block_z,
                      size |-> th[t].size, owner |-> t]}
    IN  (live \ gone) \cup got

\* s without the entries equal to a
Without(s, a) == SelectSeq(s, LAMBDA x : x # a)

\* the blocks given back and not handed out again, once the call of t has
\* come back with o: the call takes its block first and gives mem back last
FreedAfter(t, o) ==
    LET f1 == IF Fresh(t, o) /\ InTable(o.layer)
              THEN [freed EXCEPT ![o.layer] = Without(freed[o.layer], o.ret)]
              ELSE freed
        gone == IF th[t].op = "lalloc" THEN {} ELSE BlockOfCall(t)
    IN  [i \in Layers |->
            IF \E b \in gone : b.layer = i
            THEN Append(f1[i], (CHOOSE b \in gone : TRUE).addr)
            ELSE f1[i]]

\* The ways the call of t can go: the reservation is granted or refused when
\* the call makes it, and a call that reads behind the header table goes
\* one way for each thing it may find there.
Outcomes(t) ==
    LET oks == IF initialized THEN {TRUE} ELSE BOOLEAN
        plain == {Run(t, NoGarbage, ok) : ok \in oks}
    IN  IF \A o \in plain : ~o.st.oob THEN plain
        ELSE {Run(t, g, ok) : g \in Garbage, ok \in oks}

\* the body of the public function, from the lock taken to the unlock, or to
\* the return statement that comes before it
Body(t) ==
    /\ ~crashed
    /\ th[t].pc = "cs"
    /\ \E o \in Outcomes(t) :
         /\ initialized' = o.st.init
         /\ vspace_p' = o.st.vp
         /\ page_z' = o.st.pz
         /\ header_a' = o.st.h
         /\ mem' = o.st.m
         /\ prot' = o.st.p
         /\ wild' = o.st.wild
         /\ crashed' = o.st.crash
         /\ IF o.st.crash
            THEN /\ th' = [th EXCEPT ![t].pc = "fault"]
                 /\ live' = live
                 /\ freed' = freed
            ELSE /\ th' = [th EXCEPT ![t].pc = "ret",
                                     ![t].ret = o.ret,
                                     ![t].layer = o.layer,
                                     ![t].got = IF Fresh(t, o) THEN FreshId ELSE 0]
                 /\ live' = LiveAfter(t, o)
                 /\ freed' = FreedAfter(t, o)
         /\ spinlock' = IF o.unlock /\ ~o.st.crash
                        THEN ls_lalloc_spinunlock_ ELSE spinlock
    /\ UNCHANGED <<nops, avars, vvars>>

\* the payload the owner of block b writes into the size bytes it asked for
Payload(b) ==
    [a \in {b.addr + k * PtrSize : k \in 0 .. (WordsOf(b.size) - 1)}
        |-> Pattern(b.id, (a - b.addr) \div PtrSize)]

\* whether the caller writes a payload of its own into what it was handed:
\* it does into a new allocation, a reallocation carries the old payload
Writes(t) == th[t].got # 0 /\ (th[t].op = "lalloc" \/ th[t].mem = LS_NULL)

\* The public function returns to its caller, and the caller of an
\* allocation writes its payload into the block: a fault when a page of
\* the bytes it asked for is not accessible.
Return(t) ==
    /\ ~crashed
    /\ th[t].pc = "ret"
    /\ IF Writes(t)
       THEN \E b \in {x \in live : x.id = th[t].got} :
              IF Accessible(Meta, b.addr, b.size)
              THEN /\ mem' = Store(mem, Payload(b))
                   /\ crashed' = FALSE
                   /\ th' = [th EXCEPT ![t] = Idle]
              ELSE /\ crashed' = TRUE
                   /\ th' = [th EXCEPT ![t].pc = "fault"]
                   /\ mem' = mem
       ELSE /\ th' = [th EXCEPT ![t] = Idle]
            /\ UNCHANGED <<mem, crashed>>
    /\ UNCHANGED <<initialized, vspace_p, page_z, header_a, spinlock, prot,
                   live, nops, wild, freed>>
    /\ UNCHANGED <<avars, vvars>>

Next ==
    \E t \in Threads :
        \/ CallLalloc(t, Sizes, MaxOps)
        \/ CallRelalloc(t, Sizes, MaxOps)
        \/ CallLfree(t, MaxOps)
        \/ Body(t)
        \/ Return(t)

Spec == Init /\ [][Next]_vars


(* One thread, more calls: the sequential behaviours of the allocator. *)
NextSeq ==
    \/ CallLalloc(1, Sizes, MaxSeqOps)
    \/ CallRelalloc(1, Sizes, MaxSeqOps)
    \/ CallLfree(1, MaxSeqOps)
    \/ Body(1)
    \/ Return(1)

SpecSeq == Init /\ [][NextSeq]_vars

(* One thread that allocates, with every request size up to the largest. *)
AllSizes == 1 .. LS_LALLOC_MAX_Z_

NextSizes ==
    \/ CallLalloc(1, AllSizes, MaxSizeOps)
    \/ Body(1)
    \/ Return(1)

SpecSizes == Init /\ [][NextSizes]_vars

(* One thread that allocates blocks below the page size and gives them back. *)
SmallSizes == {8, 24}

NextLifo ==
    \/ CallLalloc(1, SmallSizes, MaxLifoOps)
    \/ CallLfree(1, MaxLifoOps)
    \/ Body(1)
    \/ Return(1)

SpecLifo == Init /\ [][NextLifo]_vars


(* Two threads that share the two largest layers, which hold two blocks and
   one block. *)
LargeSizes == {256, 512}

NextShared ==
    \E t \in Threads :
        \/ CallLalloc(t, LargeSizes, MaxSharedOps)
        \/ CallRelalloc(t, LargeSizes, MaxSharedOps)
        \/ CallLfree(t, MaxSharedOps)
        \/ Body(t)
        \/ Return(t)

SpecShared == Init /\ [][NextShared]_vars

(* The caller of a chunk arena: it makes the arena over its memory, gets   *)
(* chunks, writes into the chunks it holds and deletes them.               *)
ArenaInit ==
    /\ LallocInit /\ NoValloc
    /\ \E chunk_size \in ChunkSizes : \E n \in 1 .. MaxChunks :
          arena = ls_chunk_arena_init(ArenaBase, n * chunk_size, chunk_size)
    /\ amem = << >>
    /\ acommitted = {}
    /\ alive = {}
    /\ afreed = << >>
    /\ alast = NoCall
    /\ acount = 0

ArenaGet ==
    /\ acount < MaxArenaOps
    /\ \E r \in {ls_chunk_arena_get_chunk(Arena)} :
         /\ arena' = r.S.a
         /\ amem' = r.S.m
         /\ acommitted' = r.S.c
         /\ alast' = [op |-> "get", ptr |-> r.ptr, status |-> r.status]
         /\ alive' = IF r.ptr = LS_NULL THEN alive ELSE alive \cup {r.ptr}
         /\ afreed' = Without(afreed, r.ptr)
    /\ acount' = acount + 1
    /\ UNCHANGED <<lvars, vvars>>

\* the caller deletes a chunk it holds, naming it by any address inside it
ArenaDelete ==
    /\ acount < MaxArenaOps
    /\ \E chunk_ptr \in alive : \E off \in {0, arena.chunk_size - 1} :
       \E S \in {ls_chunk_arena_delete_chunk(Arena, chunk_ptr + off)} :
         /\ arena' = S.a
         /\ amem' = S.m
         /\ acommitted' = S.c
         /\ alast' = [op |-> "delete", ptr |-> chunk_ptr, status |-> LS_CHUNK_ARENA_SUCCESS]
         /\ alive' = alive \ {chunk_ptr}
         /\ afreed' = Append(afreed, chunk_ptr)
    /\ acount' = acount + 1
    /\ UNCHANGED <<lvars, vvars>>

\* the caller stores into the first word of a chunk it holds
ArenaWrite ==
    /\ \E chunk_ptr \in alive :
         /\ Rd(amem, chunk_ptr) # CallerWord
         /\ amem' = Store(amem, (chunk_ptr :> CallerWord))
    /\ UNCHANGED <<arena, acommitted, alive, afreed, alast, acount>>
    /\ UNCHANGED <<lvars, vvars>>

NextArena == ArenaGet \/ ArenaDelete \/ ArenaWrite

SpecArena == ArenaInit /\ [][NextArena]_vars

(* The caller of a virtual allocation: it reserves the allocation, writes   *)
(* into it and releases ranges of its pages.                               *)

\* the words of the allocation, and the arguments the caller passes
VWords == {VBase + k * PtrSize : k \in 0 .. ((VMemTotal \div PtrSize) - 1)}
VArgs == {k * 2 * PtrSize : k \in 0 .. ((VMemTotal + SysPageSize) \div (2 * PtrSize))}

\* every word of the allocation written
VFull == [a \in VWords |-> CallerWord]

VallocInit ==
    /\ LallocInit /\ NoArena
    /\ vmem = VFull
    /\ vlast = NoRelease
    /\ vcount = 0

VPfreeRange ==
    /\ vcount < MaxVallocOps
    /\ \E offset \in VArgs : \E range \in VArgs :
         /\ vmem' = ls_valloc_pfree_range(vmem, VBase, offset, range)
         /\ vlast' = [fn |-> "ls_valloc_pfree_range", offset |-> offset, range |-> range]
    /\ vcount' = vcount + 1
    /\ UNCHANGED <<lvars, avars>>

MPfreeRange ==
    /\ vcount < MaxVallocOps
    /\ \E offset \in VArgs : \E range \in VArgs :
         /\ vmem' = ls_pfree_range(vmem, VBase, offset, range)
         /\ vlast' = [fn |-> "ls_pfree_range", offset |-> offset, range |-> range]
    /\ vcount' = vcount + 1
    /\ UNCHANGED <<lvars, avars>>

\* the caller writes the allocation full again
VWrite ==
    /\ vmem # VFull
    /\ vmem' = VFull
    /\ UNCHANGED <<vlast, vcount>>
    /\ UNCHANGED <<lvars, avars>>

NextValloc == VPfreeRange \/ MPfreeRange \/ VWrite

SpecValloc == VallocInit /\ [][NextValloc]_vars

(* ----------------------------- claims ---------------------------------- *)

\* the bytes of a block held: [addr, addr + block size of its layer)
Overlap(b1, b2) == b1.addr < b2.addr + b2.bz /\ b2.addr < b1.addr + b1.bz

\* thread t is at the end of the body of a call (it has its return value)
Returning(t) == th[t].pc = "ret"

\* thread t runs the body of its call in this step
RunsBody(t) == th[t].pc = "cs" /\ th'[t].pc # "cs"

\* an allocation: ls_lalloc, entered directly or through ls_relalloc(NULL, ..)
IsAlloc(t) == th[t].op = "lalloc" \/ (th[t].op = "relalloc" /\ th[t].mem = LS_NULL)

\* C1: after valid calls, any two blocks that are held have byte ranges
\* [b, b + block size of the layer) that do not overlap.
C1_Disjoint ==
    ~wild => \A b1 \in live : \A b2 \in live : b1 # b2 => ~Overlap(b1, b2)

\* C2: whenever the spinlock is set, a thread is inside a public function on
\* its way to the unlock; every path that returns has left the lock clear.
C2_LockReleased ==
    (spinlock /\ ~crashed) => \E t \in Threads : th[t].pc = "cs"

\* the least k with 2^k >= n
Log2Ceil(n) == CHOOSE k \in 0 .. AddrBits : 2 ^ k >= n /\ \A j \in 0 .. (k - 1) : 2 ^ j < n

Max(a, b) == IF a >= b THEN a ELSE b

\* C3: for 0 < s <= the largest block, lalloc(s) that hands out a block takes it from layer
\* i = ceil(log2(max(s, minimal block))) - log2(minimal block); the block
\* size of that layer is >= s and < 2 * max(s, minimal block).
C3_SizeClass ==
    \A t \in Threads :
        (/\ Returning(t) /\ IsAlloc(t) /\ th[t].ret # LS_NULL
         /\ th[t].size > 0 /\ th[t].size <= LS_LALLOC_MAX_Z_)
        => /\ th[t].layer = Log2Ceil(Max(th[t].size, LS_LALLOC_MIN_Z_)) - LS_LALLOC_MIN_SHIFT_
           /\ InTable(th[t].layer)
           /\ header_a[th[t].layer].block_z = LS_LALLOC_MIN_Z_ * (2 ^ th[t].layer)
           /\ header_a[th[t].layer].block_z >= th[t].size
           /\ header_a[th[t].layer].block_z < 2 * Max(th[t].size, LS_LALLOC_MIN_Z_)
           /\ \A b \in live : b.id = th[t].got => b.layer = th[t].layer

\* C3 witness: an allocation of a size that is no power of two has come back
\* with a block of a layer above the lowest
C3_Witness ==
    \E t \in Threads :
        /\ Returning(t) /\ IsAlloc(t) /\ th[t].ret # LS_NULL
        /\ th[t].size = 100 /\ th[t].layer = 2

\* C4: when lalloc(s) comes back with a non-null b, every page that holds a
\* byte of [b, b + s) is readable and writable.
C4_Committed ==
    ~wild => \A t \in Threads :
        (Returning(t) /\ IsAlloc(t) /\ th[t].ret # LS_NULL)
        => Accessible(Meta, th[t].ret, th[t].size)

\* the smaller of the sizes asked for the old and for the new block
MinSize(t) ==
    LET old == CHOOSE b \in BlockOfCall(t) : TRUE
    IN  IF old.size < th[t].size THEN old.size ELSE th[t].size

\* the first n bytes at new after the step are readable and are the first n
\* bytes that were at old before it
Preserved(old, new, n) ==
    /\ PagesOf([pz |-> page_z'], new, n) \subseteq prot'
    /\ \A k \in 0 .. (WordsOf(n) - 1) :
          Rd(mem', new + k * PtrSize) = Rd(mem, old + k * PtrSize)

\* C5: relalloc(b, s2) of a held block b asked for with size s1 comes back
\* with a block whose first min(s1, s2) bytes are the ones b held, on the
\* copy path and on the remap path, whatever the old and the new layer.
C5_ReallocPreserves ==
    [][\A t \in Threads :
         (/\ RunsBody(t) /\ th[t].op = "relalloc" /\ th[t].mem # LS_NULL
          /\ th[t].size <= LS_LALLOC_MAX_Z_ /\ ~wild
          /\ th'[t].pc = "ret" /\ th'[t].ret # LS_NULL)
         => Preserved(th[t].mem, th'[t].ret, MinSize(t))]_vars

\* C6: at most one thread is between ls_lalloc_spinlock_ and
\* ls_lalloc_spinunlock_, it holds the flag, and the global metadata, the
\* page protections and the free-list words change only in a step of the
\* thread that holds it.
C6_MutualExclusion ==
    /\ [](/\ Cardinality({t \in Threads : th[t].pc = "cs"}) <= 1
          /\ \A t \in Threads : th[t].pc = "cs" => spinlock)
    /\ [][<<initialized, vspace_p, page_z, header_a, prot>>'
              # <<initialized, vspace_p, page_z, header_a, prot>>
          => \E t \in Threads : spinlock /\ RunsBody(t)]_vars

\* C6 witness: a thread is in its critical section right after another one
\* has left its own
C6_Witness ==
    \E t1 \in Threads : \E t2 \in Threads \ {t1} :
        th[t1].pc = "cs" /\ th[t2].pc = "ret" /\ spinlock /\ initialized

\* C7: every block held that was handed out by layer i lies in
\* [vspace_p + i * layer size, vspace_p + (i + 1) * layer size) at a multiple
\* of the layer's block size from the layer's base.
C7_InLayer ==
    ~wild => \A b \in live :
        /\ InTable(b.layer)
        /\ vspace_p + b.layer * LS_LALLOC_LAYER_Z_ <= b.addr
        /\ b.addr < vspace_p + (b.layer + 1) * LS_LALLOC_LAYER_Z_
        /\ (b.addr - (vspace_p + b.layer * LS_LALLOC_LAYER_Z_)) % b.bz = 0

\* the fields of the layer headers that count blocks and hold the free list
Counts == [i \in Layers |-> <<header_a[i].block_c, header_a[i].head_i,
                               header_a[i].deleted_head>>]

\* C8: lalloc(size) with size above the largest block returns null and
\* leaves block_c, head_i and deleted_head of every layer as they were.
C8_OversizeAlloc ==
    [][\A t \in Threads :
         (RunsBody(t) /\ IsAlloc(t) /\ th[t].size > LS_LALLOC_MAX_Z_)
         => /\ th'[t].pc = "ret" /\ th'[t].ret = LS_NULL
            /\ Counts' = Counts
            /\ live' = live]_vars

\* C8 witness: an allocation of a size above the largest block has come
\* back, with the allocator initialized and blocks handed out before it
C8_Witness ==
    \E t \in Threads :
        /\ Returning(t) /\ IsAlloc(t) /\ th[t].size > LS_LALLOC_MAX_Z_
        /\ th[t].ret = LS_NULL /\ initialized /\ live # {}

\* C9: relalloc(mem, size) with mem held and size above the largest block
\* returns null, takes no slot from any layer and leaves mem held and off
\* the free list.
C9_OversizeRealloc ==
    [][\A t \in Threads :
         (/\ RunsBody(t) /\ th[t].op = "relalloc" /\ th[t].mem # LS_NULL
          /\ th[t].size > LS_LALLOC_MAX_Z_)
         => /\ th'[t].pc = "ret" /\ th'[t].ret = LS_NULL
            /\ header_a' = header_a
            /\ live' = live]_vars

\* C10: lfree(null) changes no layer header, writes no memory and returns
\* with the spinlock clear.
C10_FreeNull ==
    [][\A t \in Threads :
         (RunsBody(t) /\ th[t].op = "lfree" /\ th[t].mem = LS_NULL)
         => /\ th'[t].pc = "ret"
            /\ header_a' = header_a /\ mem' = mem
            /\ ~spinlock' /\ ~crashed']_vars

\* C11: when the layer chosen for an allocation has block_c equal to
\* block_max, lalloc returns null and leaves the layer's header as it was.
C11_LayerFull ==
    [][\A t \in Threads :
         (/\ RunsBody(t) /\ IsAlloc(t) /\ initialized /\ ~wild
          /\ ~TooBig(th[t].size)
          /\ header_a[LayerOf(th[t].size)].block_c
                = header_a[LayerOf(th[t].size)].block_max)
         => /\ th'[t].pc = "ret" /\ th'[t].ret = LS_NULL
            /\ header_a'[LayerOf(th[t].size)] = header_a[LayerOf(th[t].size)]]_vars

\* C12: a first lalloc / relalloc whose reservation the system refuses
\* returns null with initialized still false, and leaves nothing behind that
\* blocks a later call: the spinlock is clear when it returns.
C12_InitRetry ==
    \A t \in Threads :
        (Returning(t) /\ th[t].op \in {"lalloc", "relalloc"} /\ ~initialized)
        => (th[t].ret = LS_NULL /\ ~spinlock)

\* C13: relalloc(null, size) returns what lalloc(size) returns and changes
\* the allocator's state as lalloc(size) does, the lock taken once and
\* released as lalloc releases it.
C13_ReallocNull ==
    [][\A t \in Threads :
         (RunsBody(t) /\ th[t].op = "relalloc" /\ th[t].mem = LS_NULL)
         => \E ok \in BOOLEAN : \E o \in {ls_lalloc(Meta, th[t].size, NoGarbage, ok)} :
              /\ crashed' = o.st.crash
              /\ th'[t].pc = (IF o.st.crash THEN "fault" ELSE "ret")
              /\ th'[t].ret = o.ret
              /\ <<initialized', vspace_p', page_z', header_a', mem', prot'>>
                    = <<o.st.init, o.st.vp, o.st.pz, o.st.h, o.st.m, o.st.p>>
              /\ spinlock' = (IF o.unlock THEN FALSE ELSE spinlock)]_vars

\* C13 witness: relalloc(null, size) has come back with a block, next to
\* a block handed out before
C13_Witness ==
    \E t \in Threads :
        /\ Returning(t) /\ th[t].op = "relalloc" /\ th[t].mem = LS_NULL
        /\ th[t].ret # LS_NULL /\ ~spinlock
        /\ Cardinality(live) >= 2

\* the block given back last
Top(s) == s[Len(s)]

\* C14: in a layer whose block size is below the page size the blocks given
\* back are handed out again last-in first-out: an allocation of that class,
\* while blocks given back remain, returns the one given back last and takes
\* no new address from the bump path.
C14_Lifo ==
    [][\A t \in Threads :
         (/\ RunsBody(t) /\ IsAlloc(t) /\ initialized /\ ~wild
          /\ ~TooBig(th[t].size)
          /\ header_a[LayerOf(th[t].size)].block_z < page_z
          /\ freed[LayerOf(th[t].size)] # << >>)
         => /\ th'[t].pc = "ret"
            /\ th'[t].ret = Top(freed[LayerOf(th[t].size)])
            /\ header_a'[LayerOf(th[t].size)].head_i
                  = header_a[LayerOf(th[t].size)].head_i]_vars

\* C14 witness: two blocks came from the bump path, both were given back,
\* and the next allocation has returned with one of the two still waiting
C14_Witness ==
    \E t \in Threads :
        /\ Returning(t) /\ IsAlloc(t) /\ th[t].ret # LS_NULL
        /\ header_a[0].head_i = 2 /\ nops = 5
        /\ Len(freed[0]) = 1 /\ Cardinality(live) = 1

\* the committed pages inside the blocks of layer i that were given back
CommittedInFreed(i) ==
    {q \in prot : \E k \in 1 .. Len(freed[i]) :
        freed[i][k] <= q /\ q < freed[i][k] + header_a[i].block_z}

CeilDiv(n, k) == (n + k - 1) \div k

\* no thread is inside a public function
Quiet == \A t \in Threads : th[t].pc # "cs"

\* C15: in a layer whose block size is at least the page size, with N blocks
\* given back, the pages still committed inside those blocks are ceil(N / K),
\* K = page_z / 8 - 2: one page per node of the packed list and none in a
\* block that is no node.
C15_PackedPages ==
    (initialized /\ ~wild /\ ~crashed /\ Quiet)
    => \A i \in Layers :
          (header_a[i].block_z >= page_z /\ freed[i] # << >>)
          => Cardinality(CommittedInFreed(i))
                = CeilDiv(Len(freed[i]), NodeLinks(Meta))

\* more links than a list inside the reservation can have
MaxWalk == LS_LALLOC_VSPACE_Z_ \div LS_LALLOC_MIN_Z_

RECURSIVE UnpackedLen(_, _, _)
\* the length of the unpacked list that starts at head: word 0 of a block
\* given back holds the block given back before it
UnpackedLen(m, head, fuel) ==
    IF head = LS_NULL \/ fuel = 0 THEN 0
    ELSE 1 + UnpackedLen(m, Rd(m, head), fuel - 1)

RECURSIVE PackedSum(_, _, _)
\* the sum of the link counts of the nodes from head on: word 0 of a node
\* holds the node before it, word 1 its link count
PackedSum(m, head, fuel) ==
    IF head = LS_NULL \/ fuel = 0 THEN 0
    ELSE Rd(m, head + PtrSize) + PackedSum(m, Rd(m, head), fuel - 1)

\* the number of block addresses the free list of layer i holds
FreeCount(i) ==
    IF header_a[i].block_z < page_z
    THEN UnpackedLen(mem, header_a[i].deleted_head, MaxWalk)
    ELSE PackedSum(mem, header_a[i].deleted_head, MaxWalk)

\* C16: for every layer block_c equals head_i minus the number of block
\* addresses its free list holds (list length for an unpacked layer, sum of
\* the link counts for a packed one).
C16_BlockCount ==
    (initialized /\ ~wild /\ ~crashed /\ Quiet)
    => \A i \in Layers :
          header_a[i].block_c = header_a[i].head_i - FreeCount(i)

\* C17: from any reachable state and for any size s, p = lalloc(s) followed
\* by lfree(p) leaves block_c of the layer of s at the value it had before
\* the lalloc.
C17_AllocFree ==
    (initialized /\ ~wild /\ ~crashed /\ Quiet /\ ~spinlock)
    => \A s \in Sizes :
          ~TooBig(s) =>
            \A o1 \in {ls_lalloc(Meta, s, NoGarbage, TRUE)} :
            \A o2 \in {ls_lfree(o1.st, o1.ret, NoGarbage)} :
               (~o1.st.crash /\ o1.ret # LS_NULL /\ ~o2.st.crash)
               => o2.st.h[LayerOf(s)].block_c = header_a[LayerOf(s)].block_c

\* thread t is inside a call of lalloc: it has taken the lock and has not
\* returned to its caller
InLalloc(t) == th[t].op = "lalloc" /\ th[t].pc \in {"cs", "ret"}

\* C18 (as stated): of two threads inside lalloc at the same time, the one
\* that took the spinlock first is the one whose call returns first.
C18_ReturnOrder ==
    [][\A t \in Threads : \A u \in Threads \ {t} :
         (/\ InLalloc(t) /\ InLalloc(u)
          /\ th[t].pc = "ret" /\ th'[t].pc = "idle")
         => th[t].tick < th[u].tick]_vars

\* C18 (amended): of two threads inside lalloc at the same time, the one
\* that took the spinlock first has left its critical section, the lock
\* released, before the other is in its own; which call returns first to its
\* caller is not decided by that.  (Holds of every public call.)
C18_UnlockOrder ==
    \A t \in Threads : \A u \in Threads \ {t} :
        (th[t].pc = "cs" /\ th[u].pc \in {"cs", "ret"})
        => (th[u].pc = "ret" /\ th[u].tick < th[t].tick)

\* C18 witness: a thread is in the critical section of lalloc while the
\* thread that took the lock before it has not yet returned from lalloc
C18_Witness ==
    \E t \in Threads : \E u \in Threads \ {t} :
        /\ InLalloc(t) /\ InLalloc(u)
        /\ th[t].pc = "cs" /\ th[u].pc = "ret" /\ th[u].tick < th[t].tick

\* this step is a call of ls_chunk_arena_get_chunk
GetStep == acount' = acount + 1 /\ alast'.op = "get"

\* C19: ls_chunk_arena_get_chunk returns LS_NULL with *status =
\* LS_CHUNK_ARENA_MEM_FULL exactly when _chunk_c equals _max_chunk_c at
\* entry, and then leaves the arena as it was; otherwise it returns a chunk
\* that is not null with *status = LS_CHUNK_ARENA_SUCCESS.
C19_ArenaFull ==
    [][GetStep =>
         IF arena.chunk_c = arena.max_chunk_c
         THEN /\ alast'.ptr = LS_NULL
              /\ alast'.status = LS_CHUNK_ARENA_MEM_FULL
              /\ arena' = arena /\ amem' = amem /\ acommitted' = acommitted
         ELSE /\ alast'.ptr # LS_NULL
              /\ alast'.status = LS_CHUNK_ARENA_SUCCESS]_vars

\* C19 witness: an arena of MaxChunks chunks has served that many gets, all
\* held, and has refused the next one
C19_Witness ==
    /\ alast = [op |-> "get", ptr |-> LS_NULL, status |-> LS_CHUNK_ARENA_MEM_FULL]
    /\ arena.max_chunk_c = MaxChunks
    /\ Cardinality(alive) = MaxChunks
    /\ acount = MaxChunks + 1

\* C20: the arena hands deleted chunks out again last-in first-out: a get,
\* while deleted chunks remain, returns the chunk deleted last.
C20_ArenaLifo ==
    [][(GetStep /\ afreed # << >>)
         => (alast'.ptr = Top(afreed) /\ alast'.status = LS_CHUNK_ARENA_SUCCESS)]_vars

\* C20 witness: a = get; b = get; delete(b); delete(a); c = get has returned
\* c = a, and b is the chunk waiting
C20_Witness ==
    /\ acount = 5
    /\ alast.op = "get" /\ alast.ptr = arena.memory
    /\ afreed = <<arena.memory + arena.chunk_size>>
    /\ arena.next_committed_chunk = 3

RECURSIVE StackDepth(_, _, _, _)
\* the length of the stack of deleted chunks from index i on (0 ends it):
\* word 0 of a deleted chunk holds the index of the chunk deleted before it
StackDepth(a, m, i, fuel) ==
    IF i = 0 \/ fuel = 0 THEN 0
    ELSE 1 + StackDepth(a, m, Rd(m, LS_CHUNK_ARENA_INDEX_TO_PTR(a, i - 1)), fuel - 1)

\* C21: after ls_chunk_arena_init and any valid get_chunk / delete_chunk
\* calls, _chunk_c plus the length of the stack that starts at
\* _last_deleted_chunk plus the chunks never committed,
\* _max_chunk_c - _next_committed_chunk + 1, is _max_chunk_c.
C21_ArenaCount ==
    arena.chunk_c
      + StackDepth(arena, amem, arena.last_deleted_chunk, arena.max_chunk_c + 1)
      + (arena.max_chunk_c - arena.next_committed_chunk + 1)
    = arena.max_chunk_c

\* C21 witness: a chunk held, two on the stack of deleted chunks and every
\* chunk committed, after a delete
C21_Witness ==
    /\ arena.chunk_c = 1 /\ Cardinality(alive) = 1
    /\ Len(afreed) = 2
    /\ StackDepth(arena, amem, arena.last_deleted_chunk, arena.max_chunk_c + 1) = 2
    /\ arena.next_committed_chunk = arena.max_chunk_c + 1
    /\ alast.op = "delete"

\* C22: in every reachable state and for every layer,
\* block_c <= head_i <= block_max, and head_i never decreases.
C22_HeadBounds ==
    /\ []((initialized /\ ~wild /\ ~crashed)
          => \A i \in Layers :
                /\ header_a[i].block_c <= header_a[i].head_i
                /\ header_a[i].head_i <= header_a[i].block_max)
    /\ [][initialized
          => \A i \in Layers : header_a'[i].head_i >= header_a[i].head_i]_vars

\* what ls_lalloc_init_ sets up for good: the reservation, the page size and
\* the place, block size and capacity of every layer
Layout ==
    <<vspace_p, page_z,
      [i \in Layers |-> <<header_a[i].layer_p, header_a[i].block_z,
                          header_a[i].block_max>>]>>

\* C23: under any interleaving of the threads' first lalloc / relalloc calls
\* the reservation and the header setup succeed at most once: once
\* initialized is true it stays true, no later call runs ls_lalloc_init_
\* (the lazy init leaves the metadata alone, granted or refused), and
\* vspace_p and every layer's layer_p, block_z and block_max never change
\* again.
C23_InitOnce ==
    /\ [](initialized => \A ok \in BOOLEAN : EnsureInit(Meta, ok) = Meta)
    /\ [][initialized => (initialized' /\ Layout' = Layout)]_vars

\* C23 witness: both threads have made their first call at the same time,
\* and each has come back with a block
C23_Witness ==
    /\ nops = 2
    /\ \A t \in Threads :
          Returning(t) /\ th[t].op \in {"lalloc", "relalloc"} /\ th[t].ret # LS_NULL

\* C24: when the reservation fails inside ls_lalloc_init_ the global
\* metadata is left as it was before the call: vspace_p, page_z, initialized
\* and all layer headers are unchanged.
C24_InitFailure ==
    [][\A t \in Threads :
         (/\ RunsBody(t) /\ th[t].op \in {"lalloc", "relalloc"}
          /\ ~initialized /\ ~initialized')
         => /\ vspace_p' = vspace_p
            /\ page_z' = page_z
            /\ header_a' = header_a]_vars

\* thread t runs, in this step, the body of a relalloc of a block it holds,
\* with a size the allocator serves
RunsRelalloc(t) ==
    /\ RunsBody(t) /\ th[t].op = "relalloc" /\ BlockOfCall(t) # {}
    /\ initialized /\ ~wild /\ ~TooBig(th[t].size)

\* address a lies in a block of layer i that was given back before the step
InFreed(i, a) ==
    \E k \in 1 .. Len(freed[i]) :
        freed[i][k] <= a /\ a < freed[i][k] + header_a[i].block_z

\* C25: on the copy path of relalloc (new block size below the memcpy
\* threshold) the copy stays inside the new block, also when the new class is
\* smaller than the old one: the call returns, and no word outside
\* [new_addr, new_addr + new block size) is written.  (The words the free
\* lists keep, in the old block's layer and in blocks given back, are the
\* engine's to write and are left out.)
C25_CopyBounded ==
    [][\A t \in Threads :
         (RunsRelalloc(t) /\ BlockOf(th[t].size) < LS_LALLOC_MEMCPY_THRES)
         => /\ th'[t].pc = "ret"
            /\ \A a \in (DOMAIN mem) \cup (DOMAIN mem') :
                  (/\ ~(th'[t].ret <= a /\ a < th'[t].ret + BlockOf(th[t].size))
                   /\ LayerOfAddr(Meta, a) # LayerOfAddr(Meta, th[t].mem)
                   /\ ~InFreed(LayerOf(th[t].size), a))
                  => Rd(mem', a) = Rd(mem, a)]_vars

\* C26: on the remap path of relalloc (new block size at or above the memcpy
\* threshold), when the call returns every page of
\* [new_addr, new_addr + new block size) is readable and writable, for every
\* old block size smaller than the new one.
C26_RemapCommitted ==
    [][\A t \in Threads :
         (/\ RunsRelalloc(t) /\ BlockOf(th[t].size) >= LS_LALLOC_MEMCPY_THRES
          /\ \A b \in BlockOfCall(t) : b.bz < BlockOf(th[t].size))
         => /\ th'[t].pc = "ret"
            /\ PagesOf([pz |-> page_z'], th'[t].ret, BlockOf(th[t].size))
                  \subseteq prot']_vars

\* the address layer i hands out next, in the state after the step
NextSpot(i) == ls_lalloc_layer_get_spot_(Meta', i, NoGarbage)

\* C27: after relalloc(mem, size) of a held block returns a non-null address
\* the old block is no longer held: it is on the free list of its own layer,
\* the layer derived from its address, (mem - vspace_p) / layer size, and is
\* the next address that layer hands out.
C27_OldBlockFreed ==
    [][\A t \in Threads :
         (/\ RunsBody(t) /\ th[t].op = "relalloc" /\ BlockOfCall(t) # {}
          /\ ~wild
          /\ th'[t].pc = "ret" /\ th'[t].ret # LS_NULL)
         => /\ BlockOfCall(t) \cap live' = {}
            /\ InTable(LayerOfAddr(Meta, th[t].mem))
            /\ header_a'[LayerOfAddr(Meta, th[t].mem)].deleted_head # LS_NULL
            /\ ~NextSpot(LayerOfAddr(Meta, th[t].mem)).st.crash
            /\ NextSpot(LayerOfAddr(Meta, th[t].mem)).spot = th[t].mem]_vars

\* C27 witness: a relalloc of a held block of a packed layer into another
\* layer has come back, and the old block is the one given back last in the
\* layer of its address
C27_Witness ==
    \E t \in Threads :
        /\ Returning(t) /\ th[t].op = "relalloc" /\ th[t].mem # LS_NULL
        /\ th[t].ret # LS_NULL /\ ~wild
        /\ LayerOfAddr(Meta, th[t].mem) # th[t].layer
        /\ InTable(LayerOfAddr(Meta, th[t].mem))
        /\ header_a[LayerOfAddr(Meta, th[t].mem)].block_z >= page_z
        /\ Top(freed[LayerOfAddr(Meta, th[t].mem)]) = th[t].mem

RECURSIVE NodeChain(_, _, _)
\* the nodes of the packed list that starts at head: word 0 of a node holds
\* the node before it
NodeChain(m, head, fuel) ==
    IF head = LS_NULL \/ fuel = 0 THEN {}
    ELSE {head} \cup NodeChain(m, Rd(m, head), fuel - 1)

\* the nodes linked from deleted_head of layer i
Nodes(i) == NodeChain(mem, header_a[i].deleted_head, MaxWalk)

\* layer i keeps the packed list
Packed(i) == header_a[i].block_z >= page_z

\* the layer of the block thread t gives back
FreeLayer(t) == LayerOfAddr(Meta, th[t].mem)

\* C28: in every reachable state every packed node linked from a layer's
\* deleted_head has a link count between 0 and K = page_z / 8 - 2, so that
\* all its words lie in the node's first page, and the first entry of every
\* node is the node's own address; a free onto a head whose count is K makes
\* the freed block the new head node instead of writing a (K + 1)-th entry.
C28_NodeBounds ==
    /\ []((initialized /\ ~wild /\ ~crashed)
          => \A i \in Layers : Packed(i) =>
               \A n \in Nodes(i) :
                  /\ Rd(mem, n + PtrSize) >= 0
                  /\ Rd(mem, n + PtrSize) <= NodeLinks(Meta)
                  /\ (Rd(mem, n + PtrSize) + 2) * PtrSize <= page_z
                  /\ Rd(mem, n + 2 * PtrSize) = n)
    /\ [][\A t \in Threads :
            (/\ RunsBody(t) /\ th[t].op = "lfree" /\ BlockOfCall(t) # {}
             /\ initialized /\ ~wild /\ InTable(FreeLayer(t))
             /\ Packed(FreeLayer(t))
             /\ header_a[FreeLayer(t)].deleted_head # LS_NULL
             /\ Rd(mem, header_a[FreeLayer(t)].deleted_head + PtrSize)
                   = NodeLinks(Meta))
            => /\ th'[t].pc = "ret"
               /\ header_a'[FreeLayer(t)].deleted_head = th[t].mem
               /\ Rd(mem', th[t].mem) = header_a[FreeLayer(t)].deleted_head
               /\ Rd(mem', th[t].mem + PtrSize) = 1
               /\ \A k \in 0 .. (NodeLinks(Meta) + 1) :
                     Rd(mem', header_a[FreeLayer(t)].deleted_head + k * PtrSize)
                        = Rd(mem, header_a[FreeLayer(t)].deleted_head + k * PtrSize)]_vars

\* the head node of layer i, its link count, and what get-slot does on it
HeadNode(i) == header_a[i].deleted_head
LinkCount(i) == Rd(mem, HeadNode(i) + PtrSize)
Pop(i) == ls_lalloc_layer_get_del_spot_(Meta, i, NoGarbage)

\* C29: in a packed layer get-slot returns the address pushed last into the
\* head node, word link count + 1 of the node, and decrements the node's
\* link count; the head node is unlinked (deleted_head becomes its word 0)
\* exactly when its count reaches 0, and the block that serves as the node
\* is the last address popped from it: it is handed out only by the pop that
\* empties the node.
C29_PackedPop ==
    (initialized /\ ~wild /\ ~crashed)
    => \A i \in Layers :
          (Packed(i) /\ HeadNode(i) # LS_NULL)
          => /\ ~Pop(i).st.crash
             /\ Pop(i).spot = Rd(mem, HeadNode(i) + (LinkCount(i) + 1) * PtrSize)
             /\ Rd(Pop(i).st.m, HeadNode(i) + PtrSize) = Max(LinkCount(i) - 1, 0)
             /\ IF LinkCount(i) = 1
                THEN /\ Pop(i).st.h[i].deleted_head = Rd(mem, HeadNode(i))
                     /\ Pop(i).spot = HeadNode(i)
                ELSE /\ Pop(i).st.h[i].deleted_head = HeadNode(i)
                     /\ Pop(i).spot # HeadNode(i)

\* this step is a call of ls_valloc_pfree_range or of ls_pfree_range
ReleaseStep == vcount' = vcount + 1

\* C30: ls_valloc_pfree_range(ptr, offset, range) and ls_pfree_range release
\* only bytes that lie inside the interval asked for,
\* [ptr + offset, ptr + offset + range), and inside the allocation
\* [ptr, ptr + memtotal); a range smaller than one page releases nothing.
C30_ReleaseInside ==
    [][ReleaseStep
        => /\ \A a \in VWords :
                 Rd(vmem', a) # Rd(vmem, a)
                 => /\ VBase + vlast'.offset <= a
                    /\ a + PtrSize <= VBase + vlast'.offset + vlast'.range
                    /\ a + PtrSize <= VBase + VMemTotal
           /\ vlast'.range < SysPageSize => vmem' = vmem]_vars

\* the call of thread t gets as far as ls_lalloc_layer_get_spot_: the lazy
\* init has succeeded, and ls_lalloc has let the size through
ReachesGetSpot(t) ==
    /\ RunsBody(t) /\ initialized' /\ th[t].op # "lfree"
    /\ IsAlloc(t) => ~TooBig(th[t].size)

\* thread t takes, in this step, the bump path of layer i: the layer of the
\* size it asks for, with nothing on the layer's free list
Bumps(t, i) ==
    /\ ReachesGetSpot(t) /\ LayerOf(th[t].size) = i
    /\ header_a[i].deleted_head = LS_NULL

\* C31: for any interleaving of threads that call lalloc, relalloc and lfree
\* on blocks they hold, no two calls have returned the same address while
\* both results are held, and no update of a layer header is lost: head_i
\* is 0 before the init and grows by one with every bump allocation of layer
\* i, and with nothing else.
C31_NoLostUpdate ==
    /\ [](/\ ~wild => \A b1 \in live : \A b2 \in live :
                          b1.id # b2.id => b1.addr # b2.addr
          /\ ~initialized => \A i \in Layers : header_a[i].head_i = 0)
    /\ [][~crashed'
          => \A i \in Layers :
                header_a'[i].head_i
                   = header_a[i].head_i + Cardinality({t \in Threads : Bumps(t, i)})]_vars

\* byte a lies in [base, base + n)
Within(a, base, n) == base <= a /\ a < base + n

\* thread t runs, in this step, a relalloc on the remap path that returns
RunsRemap(t) ==
    /\ RunsRelalloc(t) /\ BlockOf(th[t].size) >= LS_LALLOC_MEMCPY_THRES
    /\ th'[t].pc = "ret"

\* word a lies in the old block of t's relalloc or in
\* [new_addr, new_addr + new block size)
InCall(t, a) ==
    \/ \E b \in BlockOfCall(t) : Within(a, b.addr, b.bz)
    \/ Within(a, th'[t].ret, BlockOf(th[t].size))

\* the step leaves the words of [base, base + n) that are not the call's as
\* they were: their contents, and whether their page is committed
Untouched(t, base, n) ==
    \A a \in {base + k * PtrSize : k \in 0 .. ((n \div PtrSize) - 1)} :
        ~InCall(t, a)
        => /\ Rd(mem', a) = Rd(mem, a)
           /\ (PageOf(Meta, a) \in prot') <=> (PageOf(Meta, a) \in prot)

\* the bytes of a node of layer i that the free list uses: the first page of
\* a packed node, the two link words of an unpacked one
NodeBytes(i) == IF Packed(i) THEN page_z ELSE 2 * PtrSize

\* the head nodes the call of t pops from and pushes to
HeadsOf(t) ==
    {header_a[i].deleted_head :
        i \in {LayerOf(th[t].size), LayerOfAddr(Meta, th[t].mem)} \cap Layers}

\* C32: on the remap path relalloc changes the backing pages and the
\* protection only of the old block and of [new_addr, new_addr + new block
\* size): the contents and the committed state of every other block held
\* and of every free-list node (but the head nodes the call pops from and
\* pushes to) are as before, also when the new class is equal to or smaller
\* than the old class.
C32_RemapFrame ==
    [][\A t \in Threads :
         RunsRemap(t)
         => /\ \A b \in live \ BlockOfCall(t) : Untouched(t, b.addr, b.bz)
            /\ \A i \in Layers : \A n \in Nodes(i) \ HeadsOf(t) :
                  Untouched(t, n, NodeBytes(i))]_vars

RECURSIVE ChainSeq(_, _, _)
\* the blocks of the list that starts at head, in order: word 0 of a block
\* holds the one before it
ChainSeq(m, head, fuel) ==
    IF head = LS_NULL \/ fuel = 0 THEN << >>
    ELSE <<head>> \o ChainSeq(m, Rd(m, head), fuel - 1)

\* the addresses a packed node holds: its words 2 .. link count + 1
NodeEntries(m, n) ==
    [k \in 1 .. Rd(m, n + PtrSize) |-> Rd(m, n + (k + 1) * PtrSize)]

RECURSIVE PackedSeq(_, _, _)
\* the addresses the packed list that starts at head holds, node after node
PackedSeq(m, head, fuel) ==
    IF head = LS_NULL \/ fuel = 0 THEN << >>
    ELSE NodeEntries(m, head) \o PackedSeq(m, Rd(m, head), fuel - 1)

\* the addresses the free list of layer i holds
FreeSeq(i) ==
    IF Packed(i) THEN PackedSeq(mem, header_a[i].deleted_head, MaxWalk)
    ELSE ChainSeq(mem, header_a[i].deleted_head, MaxWalk)

\* the free list of layer i ends, and no node of it counts more links than
\* a node holds
WellFormed(i) ==
    /\ Len(ChainSeq(mem, header_a[i].deleted_head, MaxWalk)) < MaxWalk
    /\ Packed(i) => \A n \in Nodes(i) :
                       /\ Rd(mem, n + PtrSize) >= 0
                       /\ Rd(mem, n + PtrSize) <= NodeLinks(Meta)

\* a is the block of layer i with an index below head_i
IssuedBlock(i, a) ==
    /\ a >= header_a[i].layer_p
    /\ (a - header_a[i].layer_p) % header_a[i].block_z = 0
    /\ (a - header_a[i].layer_p) \div header_a[i].block_z < header_a[i].head_i

\* C33: after any sequence of valid calls, for every layer the addresses its
\* free list holds are pairwise distinct, each is a block of the layer with
\* an index below head_i, and none of them is held; this for the layers
\* below the page size too, where del-spot runs the packed-list code after
\* the unpacked push.
C33_FreeList ==
    (initialized /\ ~wild /\ ~crashed)
    => \A i \in Layers :
          /\ WellFormed(i)
          /\ \A j \in 1 .. Len(FreeSeq(i)) : \A k \in 1 .. Len(FreeSeq(i)) :
                j # k => FreeSeq(i)[j] # FreeSeq(i)[k]
          /\ \A j \in 1 .. Len(FreeSeq(i)) :
                /\ IssuedBlock(i, FreeSeq(i)[j])
                /\ \A b \in live : b.addr # FreeSeq(i)[j]

\* address c is a chunk of the arena: _memory + k * _chunk_size with
\* 0 <= k < _max_chunk_c
InArena(c) ==
    \E k \in 0 .. (arena.max_chunk_c - 1) : c = arena.memory + k * arena.chunk_size

\* this step is a get_chunk that takes the commit callback's path
CommitStep ==
    GetStep /\ arena'.next_committed_chunk # arena.next_committed_chunk

\* C34: after any sequence of valid get_chunk / delete_chunk calls the
\* chunks held are pairwise distinct (a get never returns a chunk that is
\* held), each is _memory + k * _chunk_size with 0 <= k < _max_chunk_c,
\* _chunk_c <= _max_chunk_c and
\* 1 <= _next_committed_chunk <= _max_chunk_c + 1; the commit callback is
\* never called for a chunk outside the region and at most once per chunk.
C34_ArenaChunks ==
    /\ [](/\ \A c \in alive : InArena(c)
          /\ Cardinality(alive) = arena.chunk_c
          /\ arena.chunk_c <= arena.max_chunk_c
          /\ 1 <= arena.next_committed_chunk
          /\ arena.next_committed_chunk <= arena.max_chunk_c + 1
          /\ \A c \in acommitted : InArena(c))
    /\ [][/\ (GetStep /\ alast'.ptr # LS_NULL) => alast'.ptr \notin alive
          /\ CommitStep => /\ InArena(alast'.ptr)
                           /\ alast'.ptr \notin acommitted
                           /\ acommitted' = acommitted \cup {alast'.ptr}
          /\ ~CommitStep => acommitted' = acommitted]_vars

\* C34 witness: the largest arena is full again after chunks were deleted
\* and revived (seven calls, three of them commits): every chunk is
\* committed and held, and the last call, a get, has returned a chunk
C34_Witness ==
    /\ arena.max_chunk_c = MaxChunks
    /\ arena.chunk_c = MaxChunks /\ Cardinality(alive) = MaxChunks
    /\ arena.next_committed_chunk = MaxChunks + 1
    /\ Cardinality(acommitted) = MaxChunks
    /\ alast.op = "get" /\ alast.ptr # LS_NULL
    /\ acount = MaxChunks + 4

====
